---- MODULE Spec2Model ----
(***************************************************************************)
(* Model of docext's document-to-markdown pipeline:                        *)
(*   src/docext/app/pdf2md.py   process_tags,                              *)
(*                              process_images_to_markdown_stream,         *)
(*                              process_uploaded_files_to_markdown         *)
(*   src/docext/core/client.py  MistralOCRClient                           *)
(* Text is a sequence of one-character strings.  The generator             *)
(* process_uploaded_files_to_markdown is a state machine whose position is *)
(* pc; every fragment it yields and every external call it makes is        *)
(* appended to trace.                                                      *)
(***************************************************************************)
EXTENDS Integers, Sequences, FiniteSets, TLC

\* ------------------------------------------------------------------ bounds
MaxFiles == 2
MaxPages == 2
MaxChunks == 1
MaxOcrPages == 2
MaxDriverChunks == 3
MaxPieces == 2

\* ------------------------------------------------------- text primitives
RECURSIVE Replace(_, _, _)
\* str.replace(old, new): leftmost, non-overlapping, left to right.
Replace(s, old, new) ==
  IF Len(s) < Len(old) THEN s
  ELSE IF SubSeq(s, 1, Len(old)) = old
       THEN new \o Replace(SubSeq(s, Len(old) + 1, Len(s)), old, new)
       ELSE <<Head(s)>> \o Replace(Tail(s), old, new)

RECURSIVE SplitAcc(_, _, _)
SplitAcc(s, sep, cur) ==
  IF Len(s) < Len(sep) THEN <<cur \o s>>
  ELSE IF SubSeq(s, 1, Len(sep)) = sep
       THEN <<cur>> \o SplitAcc(SubSeq(s, Len(sep) + 1, Len(s)), sep, <<>>)
       ELSE SplitAcc(Tail(s), sep, Append(cur, Head(s)))

\* str.split(sep): the pieces between the non-overlapping occurrences of sep.
Split(s, sep) == SplitAcc(s, sep, <<>>)

RECURSIVE Count(_, _)
\* str.count(sub): the number of non-overlapping occurrences of sub.
Count(s, sub) ==
  IF Len(s) < Len(sub) THEN 0
  ELSE IF SubSeq(s, 1, Len(sub)) = sub
       THEN 1 + Count(SubSeq(s, Len(sub) + 1, Len(s)), sub)
       ELSE Count(Tail(s), sub)

\* sub in s
Contains(s, sub) ==
  \E i \in 1..(Len(s) - Len(sub) + 1) : SubSeq(s, i, i + Len(sub) - 1) = sub

RECURSIVE Join(_, _)
\* sep.join(parts)
Join(parts, sep) ==
  IF Len(parts) = 0 THEN <<>>
  ELSE IF Len(parts) = 1 THEN parts[1]
       ELSE parts[1] \o sep \o Join(Tail(parts), sep)

Min(a, b) == IF a < b THEN a ELSE b

\* ------------------------------------------------------------ process_tags
ImgName == <<"i", "m", "g">>
WatermarkName == <<"w", "a", "t", "e", "r", "m", "a", "r", "k">>
PageNumberName == <<"p", "a", "g", "e", "_", "n", "u", "m", "b", "e", "r">>
SignatureName == <<"s", "i", "g", "n", "a", "t", "u", "r", "e">>
TagNames == {ImgName, WatermarkName, PageNumberName, SignatureName}

RawOpen(name) == <<"<">> \o name \o <<">">>
RawClose(name) == <<"<", "/">> \o name \o <<">">>
EscOpen(name) == <<"&", "l", "t", ";">> \o name \o <<"&", "g", "t", ";">>
EscClose(name) == <<"&", "l", "t", ";", "/">> \o name \o <<"&", "g", "t", ";">>

\* The eight raw tokens process_tags escapes.
RawTokens == {RawOpen(t) : t \in TagNames} \cup {RawClose(t) : t \in TagNames}

\* only the opening token of the pair is escaped
EscapePair_OpenOnly(content, name) == Replace(content, RawOpen(name), EscOpen(name))

\* content.replace("<name>", "&lt;name&gt;"), then
\* content.replace("</name>", "&lt;/name&gt;"); each result is a value before
\* the next replacement reads it
EscapePair(content, name) ==
  CHOOSE r \in {Replace(opened, RawClose(name), EscClose(name)) :
                  opened \in {Replace(c, RawOpen(name), EscOpen(name)) :
                                c \in {content}}} : TRUE

process_tags(content) ==
  EscapePair(EscapePair(EscapePair(EscapePair(content, ImgName),
                                   WatermarkName), PageNumberName), SignatureName)

\* ------------------------------------------------------------- separators
\* "\n\n---\n\n": joins the pages in the client, splits them in the orchestrator
ClientSeparator == <<"\n", "\n", "-", "-", "-", "\n", "\n">>
PageSeparator == <<"\n", "\n", "-", "-", "-", "\n", "\n">>
\* "---": the driver's page delimiter
Delimiter == <<"-", "-", "-">>

\* ------------------------------------------------ MistralOCRClient (client.py)
\* MistralOCRClient.__init__: raises when the key is not set or the SDK
\* constructor throws; TRUE when a client object results.
MistralOCRClient_init(keySet, sdkOk) == keySet /\ sdkOk

ImageExts == {".png", ".jpg", ".jpeg", ".avif", ".webp"}
Exts == ImageExts \cup {".pdf", ".txt"}
\* a MIME type "type/subtype" is the pair of its two parts; NoMime: None
Mime(type, subtype) == <<type, subtype>>
NoMime == <<>>
PdfMime == Mime("application", "pdf")
\* f"image/{ext[1:]}"
ImageMimeOfExt(ext) ==
  CASE ext = ".png" -> Mime("image", "png")
    [] ext = ".jpg" -> Mime("image", "jpg")
    [] ext = ".jpeg" -> Mime("image", "jpeg")
    [] ext = ".avif" -> Mime("image", "avif")
    [] ext = ".webp" -> Mime("image", "webp")
\* what mimetypes.guess_type may answer
MimeGuesses ==
  {PdfMime, Mime("image", "png"), Mime("image", "jpeg"), Mime("image", "tiff"),
   Mime("text", "plain"), NoMime}

\* lines 84-94: the guessed MIME type, else one inferred from the extension;
\* NoMime when line 94 raises
ResolveMime(guess, ext) ==
  IF guess # NoMime THEN guess
  ELSE IF ext = ".pdf" THEN PdfMime
  ELSE IF ext \in ImageExts THEN ImageMimeOfExt(ext)
  ELSE NoMime

\* mime_type.startswith("image/")
StartsWithImage(mime) == mime # NoMime /\ mime[1] = "image"

DocumentUrl == <<"d", "o", "c", "u", "m", "e", "n", "t", "_", "u", "r", "l">>
ImageUrl == <<"i", "m", "a", "g", "e", "_", "u", "r", "l">>
\* no document type: line 104 raises
NoDocType == <<>>

\* every PDF and image file is sent as a document
DocInputType_AlwaysDocument(mime) ==
  IF mime = PdfMime \/ StartsWithImage(mime) THEN DocumentUrl ELSE NoDocType
\* lines 96-104: the request's document type
DocInputType(mime) ==
  IF mime = PdfMime THEN DocumentUrl
  ELSE IF StartsWithImage(mime) THEN ImageUrl
  ELSE NoDocType

\* line 112: doc_input_type.split('_')[0] + "_url", the field of the data URI
UrlField(doc_input_type) ==
  Split(doc_input_type, <<"_">>)[1] \o <<"_", "u", "r", "l">>

\* lines 109-113: the document of the request; uri_mime is the MIME type
\* named in the data URI
RequestDocument(mime) ==
  [type |-> DocInputType(mime), field |-> UrlField(DocInputType(mime)),
   uri_mime |-> mime]
NoRequest == [type |-> NoDocType, field |-> <<>>, uri_mime |-> NoMime]

\* the call raised before any request was sent
Raised == [raised |-> TRUE, sent |-> FALSE, request |-> NoRequest, text |-> <<>>]

\* a call that returns partial text when the backend fails
extract_text_from_file_KeepsPartial(exists, readOk, guess, ext, api) ==
  [raised |-> ~exists, sent |-> exists,
   request |-> RequestDocument(ResolveMime(guess, ext)),
   text |-> Join(api.pages, ClientSeparator)]

\* extract_text_from_file: exists/readOk/guess/ext describe the file, api is the
\* backend's answer ([ok |-> FALSE] or [ok |-> TRUE, pages |-> <<markdown, ...>>]).
extract_text_from_file(exists, readOk, guess, ext, api) ==
  IF ~exists \/ ~readOk THEN Raised
  ELSE IF ResolveMime(guess, ext) = NoMime THEN Raised
  ELSE IF DocInputType(ResolveMime(guess, ext)) = NoDocType THEN Raised
  ELSE IF ~api.ok
       THEN [raised |-> TRUE, sent |-> TRUE,
             request |-> RequestDocument(ResolveMime(guess, ext)), text |-> <<>>]
       ELSE [raised |-> FALSE, sent |-> TRUE,
             request |-> RequestDocument(ResolveMime(guess, ext)),
             text |-> Join(api.pages, ClientSeparator)]

\* ------------------------------------------------------------ input sets
\* page j of an OCR response: "a" for odd j, "<img>b</img>" for even j
OcrPage(j) ==
  IF j % 2 = 1 THEN <<"a">> ELSE RawOpen(ImgName) \o <<"b">> \o RawClose(ImgName)
\* the backend's answers: a failure, or a response of 0..MaxOcrPages pages
ApiOutcomes ==
  {[ok |-> FALSE, pages |-> <<>>]} \cup
  {[ok |-> TRUE, pages |-> [j \in 1..c |-> OcrPage(j)]] : c \in 0..MaxOcrPages}

\* the file whose path is passed to extract_text_from_file
FileArg(exists, readOk, guess, ext) ==
  [ev |-> "file", site |-> "file_path", file |-> 1, exists |-> exists,
   readOk |-> readOk, guess |-> guess, ext |-> ext]
\* the files a path may name
FileArgs ==
  {FileArg(exists, readOk, guess, ext) :
     exists \in BOOLEAN, readOk \in BOOLEAN, guess \in MimeGuesses, ext \in Exts}

\* page markdown of the responses given to the Backend A path alone: "a",
\* "<img>b</img>", the empty text, and "x\n\n---\n\ny", a page with a
\* horizontal rule
OcrPageTexts ==
  {<<"a">>, RawOpen(ImgName) \o <<"b">> \o RawClose(ImgName), <<>>,
   <<"x", "\n", "\n", "-", "-", "-", "\n", "\n", "y">>}
\* the backend's answers there: a failure after 0..MaxOcrPages pages were
\* produced, or a response of 0..MaxOcrPages pages
OcrResponses ==
  {[ok |-> FALSE, pages |-> [j \in 1..c |-> OcrPage(j)]] : c \in 0..MaxOcrPages}
  \cup {[ok |-> TRUE, pages |-> ps] :
          ps \in UNION {[1..c -> OcrPageTexts] : c \in 0..MaxOcrPages}}
\* a backend answer, given before the call is made
OcrAnswer(api) ==
  [ev |-> "given", site |-> "ocr.process", file |-> 1, ok |-> api.ok,
   pages |-> api.pages]

\* the chunk convert_to_markdown_stream yields in the orchestrator's runs:
\* "<img>a---b"
ChunkSet == {RawOpen(ImgName) \o <<"a", "-", "-", "-", "b">>}
\* chunks of the runs of the driver alone: "a", "a---b", "a---b---<img>"
DriverChunkSet ==
  {<<"a">>, <<"a", "-", "-", "-", "b">>,
   <<"a", "-", "-", "-", "b", "-", "-", "-">> \o RawOpen(ImgName)}

\* pieces of the texts handed to process_tags alone: the eight raw tokens,
\* their escaped forms, and fragments of both that overlap them
EscTokens == {EscOpen(t) : t \in TagNames} \cup {EscClose(t) : t \in TagNames}
TagFragments ==
  {<<"<">>, <<">">>, <<"/">>, <<"<", "/">>, <<"<", "i", "m">>, <<"g", ">">>,
   <<"&", "l", "t", ";">>, <<"&", "g", "t", ";">>}
TagPieces == RawTokens \cup EscTokens \cup TagFragments
RECURSIVE Concat(_)
\* the concatenation of a sequence of texts
Concat(ps) == IF Len(ps) = 0 THEN <<>> ELSE Head(ps) \o Concat(Tail(ps))
\* the texts of at most MaxPieces pieces
TagInputs == {Concat(ps) : ps \in UNION {[1..n -> TagPieces] : n \in 0..MaxPieces}}

\* what convert_files_to_images may do: raise, or return 0..MaxPages image paths
RasterOutcomes ==
  {[ok |-> FALSE, n |-> 0]} \cup {[ok |-> TRUE, n |-> c] : c \in 0..MaxPages}

\* ---------------------------------------------------------------- events
\* One entry of trace: a fragment the generator yields (ev = "yield"), an
\* external call it makes (ev = "call") or the end of the stream it iterates
\* (ev = "end").  site names the yield statement by the text of its template,
\* or the callee; file is the loop iteration that produced it (0: before the
\* loop); names is the file whose basename the text carries (0: none); k/n are
\* the numbers of the page header (0/0: no header); text is the page text
\* carried; sep tells whether the fragment ends with "\n\n---\n\n"; ok is
\* FALSE for a call or a stream that raised.
Event(ev, site, file, names, k, n, text, sep) ==
  [ev |-> ev, site |-> site, file |-> file, names |-> names,
   k |-> k, n |-> n, text |-> text, sep |-> sep, ok |-> TRUE]

\* a call that returned: n is the number of items returned, text the text returned
Call(site, file, n, text) == Event("call", site, file, 0, 0, n, text, FALSE)
\* a call that raised
CallRaised(site, file) ==
  [Event("call", site, file, 0, 0, 0, <<>>, FALSE) EXCEPT !.ok = FALSE]
\* convert_to_markdown_stream is exhausted (ok) or raised (~ok)
StreamOver(file, ok) ==
  [Event("end", "convert_to_markdown_stream", file, 0, 0, 0, <<>>, FALSE)
     EXCEPT !.ok = ok]

\* line 136
NoFilesMsg == Event("yield", "NoFiles", 0, 0, 0, 0, <<>>, FALSE)
\* line 149
InitWarningMsg == Event("yield", "InitWarning", 0, 0, 0, 0, <<>>, TRUE)
\* line 163
MistralAttemptMsg(f) == Event("yield", "MistralAttempt", f, f, 0, 0, <<>>, TRUE)
\* a page header on every page, also the only one
MistralPageMsg_AlwaysHeader(f, i, num, page_md) ==
  Event("yield", "MistralPage", f, f, i + 1, num, process_tags(page_md), TRUE)
\* lines 173-177
MistralPageMsg(f, i, num, page_md) ==
  IF num > 1
  THEN Event("yield", "MistralPage", f, f, i + 1, num, process_tags(page_md), TRUE)
  ELSE Event("yield", "MistralPage", f, 0, 0, 0, process_tags(page_md), FALSE)
\* line 182
MistralErrorMsg(f) == Event("yield", "MistralError", f, f, 0, 0, <<>>, TRUE)
\* line 187
VllmNoticeMsg(f) == Event("yield", "VllmNotice", f, f, 0, 0, <<>>, TRUE)
\* line 194
NoImagesMsg(f) == Event("yield", "NoImages", f, f, 0, 0, <<>>, TRUE)
\* the chunk forwarded as convert_to_markdown_stream produced it
VllmChunkMsg_Unsanitized(f, cur, num, chunk) ==
  Event("yield", "VllmChunk", f, 0, IF num > 1 THEN Min(cur, num) ELSE 0,
        IF num > 1 THEN num ELSE 0, chunk, FALSE)
\* lines 119-123
VllmChunkMsg(f, cur, num, chunk) ==
  IF num > 1
  THEN Event("yield", "VllmChunk", f, 0, Min(cur, num), num, process_tags(chunk), FALSE)
  ELSE Event("yield", "VllmChunk", f, 0, 0, 0, process_tags(chunk), FALSE)
\* lines 131-132
VllmErrorMsg(f) == Event("yield", "VllmError", f, 0, 0, 0, <<>>, FALSE)
\* line 204
FallbackErrorMsg(f) == Event("yield", "FallbackError", f, f, 0, 0, <<>>, TRUE)
\* line 206
FinishedMsg(f) == Event("yield", "Finished", f, f, 0, 0, <<>>, FALSE)

\* The status glyph a fragment starts with.
Glyph(e) ==
  CASE e.site \in {"MistralAttempt", "VllmNotice"} -> "hourglass"
    [] e.site \in {"InitWarning", "MistralError", "NoImages"} -> "warning"
    [] e.site \in {"VllmError", "FallbackError"} -> "cross"
    [] e.site = "Finished" -> "check"
    [] e.site \in {"MistralPage", "VllmChunk"} -> IF e.n > 0 THEN "page" ELSE "none"
    [] OTHER -> "none"

\* ----------------------------------------------------------------- state
VARIABLES
  numFiles,           \* len(files)
  hasKey,             \* MISTRAL_API_KEY is set in the environment
  pc,                 \* where the generator stands
  mistral_client,     \* TRUE: a client object, FALSE: None
  idx,                \* the file of the current loop iteration, 1..numFiles
  use_vllm_fallback,
  pages,              \* markdown_output.split("\n\n---\n\n")
  page_i,             \* i of enumerate(pages)
  num_pages,          \* the driver's num_pages
  current_page,       \* the driver's current_page
  chunks_done,        \* chunks the stream has yielded so far
  trace               \* the fragments yielded and the calls made, in order

vars == <<numFiles, hasKey, pc, mistral_client, idx, use_vllm_fallback, pages,
          page_i, num_pages, current_page, chunks_done, trace>>

Init ==
  /\ numFiles \in 0..MaxFiles
  /\ hasKey \in BOOLEAN
  /\ pc = "entry"
  /\ mistral_client = FALSE
  /\ idx = 0
  /\ use_vllm_fallback = FALSE
  /\ pages = <<>>
  /\ page_i = 0
  /\ num_pages = 0
  /\ current_page = 0
  /\ chunks_done = 0
  /\ trace = <<>>

\* ------------------------------------------------ control-flow decisions
\* construction attempted whatever the environment holds
TryConstruct_Always(key) == TRUE
\* line 143: whether construction of the client is attempted
TryConstruct(key) == key
\* Backend A attempted whether or not a client was constructed
UseMistral_Always(client) == TRUE
\* line 160: if mistral_client
UseMistral(client) == client
\* a handler that skips the fallback after a Backend A error
AfterMistralError_SkipsFallback == "complete"
\* lines 180-183: the except clause falls through to the fallback check
AfterMistralError == "fallback"
\* use_vllm_fallback left set after Backend A's pages
FallbackAfterPages_StaysSet == TRUE
\* line 179, reached when every page was yielded
FallbackAfterPages == FALSE
\* line 185: if use_vllm_fallback
EnterFallback(flag) == flag
\* lines 192-195: no images: continue with the next file
AfterNoImages == "loop"
\* no except clause: the rasterizer's exception leaves the generator
AfterRasterRaise_Propagates == "aborted"
\* lines 202-204: the except clause, then line 206
AfterRasterRaise == "complete"
\* the stream's failure sends the generator to the next file
AfterStreamRaise_SkipsComplete == "loop"
\* lines 129-132: the driver's except clause ends the stream, then line 206
AfterStreamRaise == "complete"
\* the exhausted stream sends the file through the fallback again
AfterStreamEnd_Retries == "fallback"
\* line 128: the stream is exhausted, then line 206
AfterStreamEnd == "complete"
\* every chunk counts as one more page
NextCurrentPage_CountsChunks(cur, chunk) == cur + 1
\* lines 125-126
NextCurrentPage(cur, chunk) ==
  IF Contains(chunk, Delimiter) THEN Count(chunk, Delimiter) + 1 ELSE cur

\* ---------------------------------------------------------------- actions
\* lines 135-152: the empty batch, the key, the client's construction
Entry ==
  /\ pc = "entry"
  /\ IF numFiles = 0
     THEN /\ trace' = Append(trace, NoFilesMsg)
          /\ pc' = "done"
          /\ UNCHANGED mistral_client
     ELSE /\ pc' = "loop"
          /\ IF TryConstruct(hasKey)
             THEN \E sdkOk \in BOOLEAN :
                    /\ mistral_client' = MistralOCRClient_init(hasKey, sdkOk)
                    /\ trace' = IF MistralOCRClient_init(hasKey, sdkOk)
                                THEN Append(trace, Call("MistralOCRClient", 0, 0, <<>>))
                                ELSE trace \o <<CallRaised("MistralOCRClient", 0),
                                                InitWarningMsg>>
             ELSE /\ mistral_client' = FALSE
                  /\ UNCHANGED trace
  /\ UNCHANGED <<numFiles, hasKey, idx, use_vllm_fallback, pages, page_i,
                 num_pages, current_page, chunks_done>>

\* lines 154-163: the next file, or the end of the run
LoopNext ==
  /\ pc = "loop"
  /\ IF idx = numFiles
     THEN /\ pc' = "done"
          /\ UNCHANGED <<idx, use_vllm_fallback, trace>>
     ELSE /\ idx' = idx + 1
          /\ use_vllm_fallback' = TRUE
          /\ IF UseMistral(mistral_client)
             THEN /\ trace' = Append(trace, MistralAttemptMsg(idx + 1))
                  /\ pc' = "mistral_call"
             ELSE /\ pc' = "fallback"
                  /\ UNCHANGED trace
  /\ UNCHANGED <<numFiles, hasKey, mistral_client, pages, page_i, num_pages,
                 current_page, chunks_done>>

\* lines 165-171 and 180-182: the Backend A call, on a file of files and with
\* a backend answer of apis
MistralCallOf(files, apis) ==
  /\ pc = "mistral_call"
  /\ \E f \in files, api \in apis :
       LET r == extract_text_from_file(f.exists, f.readOk, f.guess, f.ext, api) IN
         IF r.raised
         THEN /\ trace' = trace \o <<CallRaised("extract_text_from_file", idx),
                                     MistralErrorMsg(idx)>>
              /\ pc' = AfterMistralError
              /\ UNCHANGED <<pages, page_i>>
         ELSE /\ trace' = Append(trace, Call("extract_text_from_file", idx, 0, r.text))
              /\ pages' = Split(r.text, PageSeparator)
              /\ page_i' = 0
              /\ pc' = "mistral_pages"
  /\ UNCHANGED <<numFiles, hasKey, mistral_client, idx, use_vllm_fallback,
                 num_pages, current_page, chunks_done>>

MistralCall == MistralCallOf(FileArgs, ApiOutcomes)

\* lines 172-178: the loop over the pages yields one page
MistralPage ==
  /\ pc = "mistral_pages"
  /\ page_i < Len(pages)
  /\ \E page_md \in {pages[page_i + 1]} :
       trace' = Append(trace, MistralPageMsg(idx, page_i, Len(pages), page_md))
  /\ page_i' = page_i + 1
  /\ UNCHANGED <<numFiles, hasKey, pc, mistral_client, idx, use_vllm_fallback,
                 pages, num_pages, current_page, chunks_done>>

\* line 179: the loop over the pages is over, use_vllm_fallback = False
MistralPagesDone ==
  /\ pc = "mistral_pages"
  /\ page_i = Len(pages)
  /\ use_vllm_fallback' = FallbackAfterPages
  /\ pc' = "fallback"
  /\ UNCHANGED <<numFiles, hasKey, mistral_client, idx, pages, page_i,
                 num_pages, current_page, chunks_done, trace>>

\* lines 185-187
Fallback ==
  /\ pc = "fallback"
  /\ IF EnterFallback(use_vllm_fallback)
     THEN /\ trace' = Append(trace, VllmNoticeMsg(idx))
          /\ pc' = "rasterize"
     ELSE /\ pc' = "complete"
          /\ UNCHANGED trace
  /\ UNCHANGED <<numFiles, hasKey, mistral_client, idx, use_vllm_fallback,
                 pages, page_i, num_pages, current_page, chunks_done>>

\* lines 189-200 and 202-204: rasterization, then the driver's first lines
\* (109-110)
Rasterize ==
  /\ pc = "rasterize"
  /\ \E r \in RasterOutcomes :
       IF ~r.ok
       THEN /\ trace' = trace \o <<CallRaised("convert_files_to_images", idx),
                                   FallbackErrorMsg(idx)>>
            /\ pc' = AfterRasterRaise
            /\ UNCHANGED <<num_pages, current_page, chunks_done>>
       ELSE IF r.n = 0
       THEN /\ trace' = trace \o <<Call("convert_files_to_images", idx, 0, <<>>),
                                   NoImagesMsg(idx)>>
            /\ pc' = AfterNoImages
            /\ UNCHANGED <<num_pages, current_page, chunks_done>>
       ELSE /\ trace' = trace \o
                        <<Call("convert_files_to_images", idx, r.n, <<>>),
                          Call("process_images_to_markdown_stream", idx, r.n, <<>>)>>
            /\ num_pages' = r.n
            /\ current_page' = 1
            /\ chunks_done' = 0
            /\ pc' = "stream"
  /\ UNCHANGED <<numFiles, hasKey, mistral_client, idx, use_vllm_fallback,
                 pages, page_i>>

\* lines 112-127: one chunk of convert_to_markdown_stream, drawn from chunks,
\* in a stream of at most bound chunks
StreamChunkOf(chunks, bound) ==
  /\ pc = "stream"
  /\ chunks_done < bound
  /\ \E chunk \in chunks :
       /\ trace' = Append(trace, VllmChunkMsg(idx, current_page, num_pages, chunk))
       /\ current_page' = NextCurrentPage(current_page, chunk)
  /\ chunks_done' = chunks_done + 1
  /\ UNCHANGED <<numFiles, hasKey, pc, mistral_client, idx, use_vllm_fallback,
                 pages, page_i, num_pages>>

StreamChunk == StreamChunkOf(ChunkSet, MaxChunks)

\* line 128: convert_to_markdown_stream is exhausted
StreamEnd ==
  /\ pc = "stream"
  /\ trace' = Append(trace, StreamOver(idx, TRUE))
  /\ pc' = AfterStreamEnd
  /\ UNCHANGED <<numFiles, hasKey, mistral_client, idx, use_vllm_fallback,
                 pages, page_i, num_pages, current_page, chunks_done>>

\* lines 129-132: convert_to_markdown_stream raises
StreamRaise ==
  /\ pc = "stream"
  /\ trace' = trace \o <<StreamOver(idx, FALSE), VllmErrorMsg(idx)>>
  /\ pc' = AfterStreamRaise
  /\ UNCHANGED <<numFiles, hasKey, mistral_client, idx, use_vllm_fallback,
                 pages, page_i, num_pages, current_page, chunks_done>>

\* line 206
Complete ==
  /\ pc = "complete"
  /\ trace' = Append(trace, FinishedMsg(idx))
  /\ pc' = "loop"
  /\ UNCHANGED <<numFiles, hasKey, mistral_client, idx, use_vllm_fallback,
                 pages, page_i, num_pages, current_page, chunks_done>>

Next ==
  \/ Entry
  \/ LoopNext
  \/ MistralCall
  \/ MistralPage
  \/ MistralPagesDone
  \/ Fallback
  \/ Rasterize
  \/ StreamChunk
  \/ StreamEnd
  \/ StreamRaise
  \/ Complete

Spec == Init /\ [][Next]_vars

\* The consumer pulls until the generator is exhausted and every call returns.
FairSpec == Spec /\ WF_vars(Next)

\* ------------------------------------------------- the driver on its own
\* process_images_to_markdown_stream right after its first lines (109-110), for
\* one file that was rasterized to 1..MaxPages images.
InitDriver ==
  /\ numFiles = 1
  /\ hasKey = FALSE
  /\ pc = "stream"
  /\ mistral_client = FALSE
  /\ idx = 1
  /\ use_vllm_fallback = TRUE
  /\ pages = <<>>
  /\ page_i = 0
  /\ num_pages \in 1..MaxPages
  /\ current_page = 1
  /\ chunks_done = 0
  /\ trace = <<VllmNoticeMsg(1),
               Call("convert_files_to_images", 1, num_pages, <<>>),
               Call("process_images_to_markdown_stream", 1, num_pages, <<>>)>>

DriverChunk == StreamChunkOf(DriverChunkSet, MaxDriverChunks)

NextDriver ==
  \/ DriverChunk
  \/ StreamEnd
  \/ StreamRaise

SpecDriver == InitDriver /\ [][NextDriver]_vars

\* ------------------------------------------------- process_tags on its own
\* process_tags about to be applied to the one text of pages.
InitTags ==
  /\ numFiles = 0
  /\ hasKey = FALSE
  /\ pc = "process_tags"
  /\ mistral_client = FALSE
  /\ idx = 0
  /\ use_vllm_fallback = FALSE
  /\ pages \in {<<x>> : x \in TagInputs}
  /\ page_i = 0
  /\ num_pages = 0
  /\ current_page = 0
  /\ chunks_done = 0
  /\ trace = <<>>

\* lines 20-30: process_tags applied to the text, then to its own result
Sanitize ==
  /\ pc = "process_tags"
  /\ \E content \in {IF trace = <<>> THEN pages[1] ELSE trace[Len(trace)].text} :
       trace' = Append(trace, Call("process_tags", 0, 0, process_tags(content)))
  /\ pc' = IF trace = <<>> THEN "process_tags" ELSE "done"
  /\ UNCHANGED <<numFiles, hasKey, mistral_client, idx, use_vllm_fallback,
                 pages, page_i, num_pages, current_page, chunks_done>>

NextTags == Sanitize

SpecTags == InitTags /\ [][NextTags]_vars

\* ------------------------------------------ extract_text_from_file on its own
\* the request passed to client.ocr.process (lines 107-115) and how it ended
OcrRequest(file, document, ok) ==
  [ev |-> "call", site |-> "ocr.process", file |-> file, type |-> document.type,
   field |-> document.field, uri_mime |-> document.uri_mime, ok |-> ok]

\* a constructed client about to be called with one file path
InitClient ==
  /\ numFiles = 1
  /\ hasKey = TRUE
  /\ pc = "extract_text_from_file"
  /\ mistral_client = TRUE
  /\ idx = 1
  /\ use_vllm_fallback = TRUE
  /\ pages = <<>>
  /\ page_i = 0
  /\ num_pages = 0
  /\ current_page = 0
  /\ chunks_done = 0
  /\ \E exists \in BOOLEAN, readOk \in BOOLEAN, guess \in MimeGuesses, ext \in Exts :
       trace = <<FileArg(exists, readOk, guess, ext)>>

\* lines 79-127: the call, the request it sends, and its return or raise
ExtractCall ==
  /\ pc = "extract_text_from_file"
  /\ \E api \in ApiOutcomes :
       LET f == trace[1]
           r == extract_text_from_file(f.exists, f.readOk, f.guess, f.ext, api)
       IN trace' = trace
                   \o (IF r.sent THEN <<OcrRequest(idx, r.request, api.ok)>> ELSE <<>>)
                   \o <<IF r.raised THEN CallRaised("extract_text_from_file", idx)
                        ELSE Call("extract_text_from_file", idx, 0, r.text)>>
  /\ pc' = "done"
  /\ UNCHANGED <<numFiles, hasKey, mistral_client, idx, use_vllm_fallback,
                 pages, page_i, num_pages, current_page, chunks_done>>

NextClient == ExtractCall

SpecClient == InitClient /\ [][NextClient]_vars

\* ------------------------------------------- the Backend A path on its own
\* a file that is missing, and a PDF file that can be read
BackendAFiles ==
  {FileArg(FALSE, FALSE, NoMime, ".pdf"), FileArg(TRUE, TRUE, PdfMime, ".pdf")}

\* The orchestrator at line 165 for the one file of a batch, the client
\* constructed (line 145) and the attempt notice yielded (line 163); the file
\* and the backend's answer to come are given.
InitBackendA ==
  /\ numFiles = 1
  /\ hasKey = TRUE
  /\ pc = "mistral_call"
  /\ mistral_client = TRUE
  /\ idx = 1
  /\ use_vllm_fallback = TRUE
  /\ pages = <<>>
  /\ page_i = 0
  /\ num_pages = 0
  /\ current_page = 0
  /\ chunks_done = 0
  /\ \E f \in BackendAFiles, api \in OcrResponses :
       trace = <<Call("MistralOCRClient", 0, 0, <<>>), f, OcrAnswer(api),
                 MistralAttemptMsg(1)>>

\* the file and the backend answer given to the run
GivenFile == trace[2]
GivenAnswer == trace[3]

MistralCallGiven ==
  MistralCallOf({GivenFile}, {[ok |-> GivenAnswer.ok, pages |-> GivenAnswer.pages]})

NextBackendA ==
  \/ MistralCallGiven
  \/ MistralPage
  \/ MistralPagesDone
  \/ Fallback
  \/ Rasterize
  \/ StreamChunk
  \/ StreamEnd
  \/ StreamRaise
  \/ Complete
  \/ LoopNext

SpecBackendA == InitBackendA /\ [][NextBackendA]_vars

\* ------------------------------------------------- reading the trace
Positions == 1..Len(trace)
Files == 1..numFiles

\* the fragments yielded so far, in order
Yielded == SelectSeq(trace, LAMBDA e : e.ev = "yield")
\* the fragments yielded during the iteration of file f, in order
YieldedFor(f) == SelectSeq(trace, LAMBDA e : e.ev = "yield" /\ e.file = f)

\* positions of the calls of callee site made for file f
CallsAt(site, f) ==
  {i \in Positions : trace[i].ev = "call" /\ trace[i].site = site /\ trace[i].file = f}
\* positions of the fragments of template site yielded for file f
YieldsAt(site, f) ==
  {i \in Positions : trace[i].ev = "yield" /\ trace[i].site = site /\ trace[i].file = f}

\* the loop iteration of file f is over
IterationEnded(f) == f < idx \/ (f = idx /\ pc \in {"loop", "done"})
\* the loop iteration of file f has begun
Started(f) == f <= idx

\* what happened to file f
BackendARaised(f) ==
  \E i \in CallsAt("extract_text_from_file", f) : ~trace[i].ok
BackendASucceeded(f) ==
  \E i \in CallsAt("extract_text_from_file", f) : trace[i].ok
RasterRaised(f) ==
  \E i \in CallsAt("convert_files_to_images", f) : ~trace[i].ok
RasterEmpty(f) ==
  \E i \in CallsAt("convert_files_to_images", f) : trace[i].ok /\ trace[i].n = 0
RasterPages(f) ==
  \E i \in CallsAt("convert_files_to_images", f) : trace[i].ok /\ trace[i].n > 0
StreamInvoked(f) == CallsAt("process_images_to_markdown_stream", f) # {}
StreamRaised(f) ==
  \E i \in Positions : trace[i].ev = "end" /\ trace[i].file = f /\ ~trace[i].ok

\* ------------------------------------------------------------------ C1
\* C1: a run over a non-empty batch, consumed to exhaustion, yields exactly one
\* "Finished processing <file>" fragment per input file, in input order.
C1_OneFileCompletePerFile ==
  (pc = "done" /\ numFiles > 0) =>
    LET fin == SelectSeq(Yielded, LAMBDA e : e.site = "Finished") IN
      /\ Len(fin) = numFiles
      /\ \A j \in 1..Len(fin) : fin[j].names = j

\* ------------------------------------------------------------------ C2
\* C2: for every file whose iteration is over, page content of exactly one
\* backend was yielded: never of both, and when of neither then a warning or
\* error fragment was yielded for the file.
C2_ExactlyOneBackend ==
  \A f \in Files : IterationEnded(f) =>
    LET a == YieldsAt("MistralPage", f) # {}
        b == YieldsAt("VllmChunk", f) # {}
        err == \E i \in Positions :
                 /\ trace[i].ev = "yield" /\ trace[i].file = f
                 /\ Glyph(trace[i]) \in {"warning", "cross"}
    IN /\ ~(a /\ b)
       /\ (~a /\ ~b) => err

\* ------------------------------------------------------------------ C3
\* a warning or error fragment naming file f at position i
WarnsAbout(i, f) ==
  /\ trace[i].ev = "yield" /\ trace[i].names = f
  /\ Glyph(trace[i]) \in {"warning", "cross"}

\* C3 as claimed: once the iteration of a file for which Backend A raised is
\* over, a warning/error fragment naming the file was yielded, after it the
\* rasterizer was called and then a Backend B stream invoked for the file; and
\* at the end of the run the next file was started.
C3_FallbackAlwaysReachesBackendB ==
  \A f \in Files : (IterationEnded(f) /\ BackendARaised(f)) =>
    /\ \E j \in CallsAt("convert_files_to_images", f) :
         /\ \E i \in 1..(j - 1) : WarnsAbout(i, f)
         /\ \E k \in CallsAt("process_images_to_markdown_stream", f) : j < k
    /\ (pc = "done" /\ f < numFiles) => Started(f + 1)

\* C3 amended: once the iteration of a file for which Backend A raised is over,
\* a warning/error fragment naming the file was yielded and after it the
\* rasterizer was called for the file; a Backend B stream was invoked for the
\* file, after that call, exactly when the rasterizer returned at least one
\* page image; and at the end of the run the next file was started.
C3_FallbackAfterBackendAError ==
  \A f \in Files : (IterationEnded(f) /\ BackendARaised(f)) =>
    /\ \E c \in CallsAt("extract_text_from_file", f) :
         \E j \in CallsAt("convert_files_to_images", f) :
           /\ \E i \in (c + 1)..(j - 1) : WarnsAbout(i, f)
           /\ \A k \in CallsAt("process_images_to_markdown_stream", f) : j < k
    /\ StreamInvoked(f) <=> RasterPages(f)
    /\ (pc = "done" /\ f < numFiles) => Started(f + 1)

\* Backend A raised for file 1, Backend B was invoked for it, file 2 was started
C3_Witness ==
  /\ BackendARaised(1) /\ StreamInvoked(1) /\ IterationEnded(1)
  /\ pc = "done" /\ numFiles > 1 /\ trace[Len(trace)].file = 2

\* ------------------------------------------------------------------ C4
\* the positions of the generator; an exception that leaves it would put it
\* at "aborted"
PcValues == {"entry", "loop", "mistral_call", "mistral_pages", "fallback",
             "rasterize", "stream", "complete", "done"}

\* a failure of any kind happened on file f
FailedOn(f) ==
  BackendARaised(f) \/ RasterRaised(f) \/ RasterEmpty(f) \/ StreamRaised(f)

\* steps one file can still take, by position
FileWeight == MaxOcrPages + MaxChunks + 9
StepsLeft ==
  CASE pc = "done" -> 0
    [] pc = "entry" -> (numFiles + 1) * FileWeight
    [] pc = "loop" -> (numFiles - idx) * FileWeight + 1
    [] pc = "complete" -> (numFiles - idx) * FileWeight + 2
    [] pc = "stream" -> (numFiles - idx) * FileWeight + 3 + (MaxChunks - chunks_done)
    [] pc = "rasterize" -> (numFiles - idx) * FileWeight + 4 + MaxChunks
    [] pc = "fallback" -> (numFiles - idx) * FileWeight + 5 + MaxChunks
    [] pc = "mistral_pages" ->
         (numFiles - idx) * FileWeight + 6 + MaxChunks + (Len(pages) - page_i)
    [] pc = "mistral_call" ->
         (numFiles - idx) * FileWeight + 8 + MaxChunks + MaxOcrPages
    [] OTHER -> 0

\* C4: no exception leaves the generator; a run that is not over can always
\* take a step and every step lowers a natural-number measure, so a run
\* consumed to exhaustion terminates; when it is over every input file was
\* started (it yielded its first fragment), whatever failed on earlier files.
C4_FailureIsolationAndCompletion ==
  /\ [](/\ pc \in PcValues
        /\ StepsLeft \in Nat
        /\ pc # "done" => ENABLED Next
        /\ (pc = "done" /\ numFiles > 0) =>
             /\ idx = numFiles
             /\ \A f \in Files : YieldedFor(f) # <<>>
        /\ \A f \in Files : (FailedOn(f) /\ pc = "done") =>
             \A g \in (f + 1)..numFiles : YieldedFor(g) # <<>>)
  /\ [][StepsLeft' < StepsLeft]_vars

\* the rasterizer raised on file 1, the stream raised on file 2, the run is over
C4_Witness ==
  /\ pc = "done" /\ numFiles > 1
  /\ RasterRaised(1) /\ StreamRaised(2)

\* ------------------------------------------------------------ C5, C6
\* Backend A is left alone: no call of it and no "Attempting Mistral OCR"
\* fragment for any file
NoBackendAUse ==
  \A i \in Positions :
    /\ ~(trace[i].ev = "call" /\ trace[i].site = "extract_text_from_file")
    /\ ~(trace[i].ev = "yield" /\ trace[i].site = "MistralAttempt")

\* every file whose iteration is over was passed to the rasterizer, once, and
\* to Backend B exactly when the rasterizer returned page images
AllRoutedThroughFallback ==
  \A f \in Files :
    /\ IterationEnded(f) =>
         /\ Cardinality(CallsAt("convert_files_to_images", f)) = 1
         /\ RasterPages(f) <=> StreamInvoked(f)
    /\ \A j \in CallsAt("process_images_to_markdown_stream", f) :
         \E i \in CallsAt("convert_files_to_images", f) :
           i < j /\ trace[i].ok /\ trace[i].n = trace[j].n /\ trace[i].n > 0

\* C5: with MISTRAL_API_KEY absent at the start of the run the Backend A client
\* is never constructed or called, no "Attempting Mistral OCR" fragment is
\* yielded, and every file goes to the rasterizer and, when that returns pages,
\* to Backend B.
C5_NoCredentialNoBackendA ==
  ~hasKey =>
    /\ ~mistral_client
    /\ \A i \in Positions :
         ~(trace[i].ev = "call" /\ trace[i].site = "MistralOCRClient")
    /\ NoBackendAUse
    /\ AllRoutedThroughFallback

\* a run without the key is over: both files went through the rasterizer, one
\* of them on to Backend B
C5_Witness ==
  /\ ~hasKey /\ pc = "done" /\ numFiles > 1
  /\ StreamInvoked(1) /\ RasterEmpty(2)

\* positions of the constructor calls
ConstructorCalls ==
  {i \in Positions : trace[i].ev = "call" /\ trace[i].site = "MistralOCRClient"}

\* C6: the client's construction is attempted at most once in a run, before
\* the first file; when it throws (the key being set), exactly one run-level
\* warning fragment is yielded, before every per-file fragment, no Backend A
\* call and no Backend A attempt fragment follows, and every file goes to the
\* rasterizer and, when that returns pages, to Backend B.
C6_ConstructionOnceAndFailureDisablesBackendA ==
  /\ Cardinality(ConstructorCalls) <= 1
  /\ \A c \in ConstructorCalls :
       /\ hasKey
       /\ trace[c].file = 0
       /\ \A i \in Positions : trace[i].file > 0 => c < i
  /\ \A c \in ConstructorCalls : ~trace[c].ok =>
       /\ ~mistral_client
       /\ Cardinality(YieldsAt("InitWarning", 0)) = 1
       /\ \A w \in YieldsAt("InitWarning", 0) :
            \A i \in Positions : (trace[i].ev = "yield" /\ i # w) => w < i
       /\ \A i \in Positions :
            (trace[i].ev = "yield" /\ Glyph(trace[i]) = "warning" /\ trace[i].file = 0)
              => trace[i].site = "InitWarning"
       /\ NoBackendAUse
       /\ AllRoutedThroughFallback

\* construction threw, and the run over two files is over
C6_Witness ==
  /\ pc = "done" /\ numFiles > 1
  /\ \E c \in ConstructorCalls : ~trace[c].ok
  /\ StreamInvoked(1) /\ StreamInvoked(2)

\* ------------------------------------------------------------------ C7
\* C7: when the rasterizer returned no page image for a file, exactly one
\* fragment with the error status tag was yielded for that file and Backend B
\* was not invoked for it.
C7_EmptyRasterizationOneErrorFragment ==
  \A f \in Files : (IterationEnded(f) /\ RasterEmpty(f)) =>
    /\ Cardinality({i \in Positions :
                      /\ trace[i].ev = "yield" /\ trace[i].file = f
                      /\ Glyph(trace[i]) = "cross"}) = 1
    /\ ~StreamInvoked(f)

\* ------------------------------------------------------------------ C8
\* the status tag of a fragment, by its glyph
StatusTag(e) ==
  CASE Glyph(e) = "hourglass" -> "attempt"
    [] Glyph(e) = "warning" -> "warning"
    [] Glyph(e) = "cross" -> "error"
    [] Glyph(e) = "check" -> "file-complete"
    [] Glyph(e) = "page" -> "page-progress"
    [] OTHER -> "success"

\* the place of a status tag in the order the claim gives: attempt notice,
\* then page-progress/content or warning/error, then file-complete
TagRank(e) ==
  CASE StatusTag(e) = "attempt" -> 0
    [] StatusTag(e) = "file-complete" -> 2
    [] OTHER -> 1

\* fragments of file i precede those of file i + 1
FilesInOrder ==
  LET ys == Yielded IN
    \A i, j \in 1..Len(ys) : i < j => ys[i].file <= ys[j].file

\* C8 as claimed: fragments of file i precede those of file i + 1, and within
\* a file the attempt notices come first, then content/warning/error
\* fragments, then the file-complete fragment.
C8_AttemptThenContentThenComplete ==
  /\ FilesInOrder
  /\ LET ys == Yielded IN
       \A i, j \in 1..Len(ys) :
         (i < j /\ ys[i].file = ys[j].file /\ ys[i].file > 0)
           => TagRank(ys[i]) <= TagRank(ys[j])

\* the place of a fragment within its file as the code orders them: Backend
\* A's attempt notice, Backend A's pages or warning, the fallback's attempt
\* notice, the fallback's content/warning/error, file-complete
PathRank(e) ==
  CASE e.site = "MistralAttempt" -> 0
    [] e.site \in {"MistralPage", "MistralError"} -> 1
    [] e.site = "VllmNotice" -> 2
    [] e.site \in {"NoImages", "VllmChunk", "VllmError", "FallbackError"} -> 3
    [] e.site = "Finished" -> 4
    [] OTHER -> 5

\* C8 amended: fragments of file i precede those of file i + 1; within a file
\* the order is Backend A's attempt notice, Backend A's page fragments or its
\* warning, then (on fallback) the VLLM attempt notice, then the fallback's
\* content/warning/error fragments, then the file-complete fragment, after
\* which nothing is yielded for the file; each attempt notice and the
\* file-complete fragment occur at most once per file.
C8_FragmentOrderPerBackendPath ==
  /\ FilesInOrder
  /\ LET ys == Yielded IN
       \A i, j \in 1..Len(ys) :
         (i < j /\ ys[i].file = ys[j].file /\ ys[i].file > 0)
           => /\ PathRank(ys[i]) <= PathRank(ys[j])
              /\ PathRank(ys[j]) < 5
              /\ ys[i].site \in {"MistralAttempt", "VllmNotice", "Finished"}
                   => ys[i].site # ys[j].site
              /\ ys[i].site # "Finished"

\* file 1 fell back after a Backend A error and streamed a chunk, file 2 was
\* converted by Backend A; the run is over
C8_Witness ==
  /\ pc = "done" /\ numFiles > 1
  /\ BackendARaised(1) /\ YieldsAt("VllmChunk", 1) # {}
  /\ YieldsAt("Finished", 1) # {}
  /\ YieldsAt("MistralPage", 2) # {}

\* ------------------------------------------------------------------ C9
\* C9: when Backend A returned text for a file, the fragments of that file are
\* the attempt notice, one content fragment per piece of the text split on
\* "\n\n---\n\n", in order, and the file-complete fragment; the k-th of n
\* content fragments carries the header "Page k of n" exactly when n > 1; the
\* rasterizer and Backend B are not invoked for the file.
C9_BackendASuccessOneFragmentPerPage ==
  \A f \in Files : (IterationEnded(f) /\ BackendASucceeded(f)) =>
    \A c \in CallsAt("extract_text_from_file", f) :
      LET ps == Split(trace[c].text, PageSeparator)
          ys == YieldedFor(f)
          n == Len(ps)
      IN /\ Len(ys) = n + 2
         /\ ys[1].site = "MistralAttempt"
         /\ ys[n + 2].site = "Finished"
         /\ \A k \in 1..n :
              /\ ys[k + 1].site = "MistralPage"
              /\ ys[k + 1].text = process_tags(ps[k])
              /\ (n > 1) => (ys[k + 1].k = k /\ ys[k + 1].n = n)
              /\ (n <= 1) => (ys[k + 1].k = 0 /\ ys[k + 1].n = 0)
              /\ Glyph(ys[k + 1]) = "page" <=> n > 1
         /\ CallsAt("convert_files_to_images", f) = {}
         /\ CallsAt("process_images_to_markdown_stream", f) = {}

\* Backend A returned two pages for file 1 and a single page for file 2
C9_Witness ==
  /\ pc = "done" /\ numFiles > 1
  /\ Cardinality(YieldsAt("MistralPage", 1)) = 2
  /\ Cardinality(YieldsAt("MistralPage", 2)) = 1
  /\ \A i \in YieldsAt("MistralPage", 1) : trace[i].n = 2

\* ----------------------------------------------------------------- C10
\* the chunks the driver forwarded, in order
ChunksYielded == SelectSeq(Yielded, LAMBDA e : e.site = "VllmChunk")

\* C10: in a stream over n > 1 page images the k-th chunk the driver yields
\* carries the header "page k of n" (k = 1, 2, ..., n in page order); over a
\* single page image no chunk carries a header.
C10_KthChunkCarriesPageK ==
  LET cs == ChunksYielded IN
    \A j \in 1..Len(cs) :
      /\ (num_pages > 1 /\ j <= num_pages) => (cs[j].k = j /\ cs[j].n = num_pages)
      /\ num_pages = 1 => (cs[j].k = 0 /\ cs[j].n = 0)

\* ----------------------------------------------------------------- C11
\* C11: when convert_to_markdown_stream raised for a file (before the first
\* chunk or after some chunks), the driver yielded exactly one error fragment,
\* right after the raise; the orchestrator's own handler did not see the
\* exception; no chunk and no second error fragment of that stream follows;
\* the next fragment is the file-complete fragment of the file; and at the end
\* of the run the next file was started.  An error fragment of the driver is
\* yielded only for a stream that raised.
C11_StreamRaiseOneErrorFragment ==
  /\ pc \in PcValues
  /\ \A f \in Files :
       /\ YieldsAt("VllmError", f) # {} => StreamRaised(f)
       /\ StreamRaised(f) =>
            /\ Cardinality(YieldsAt("VllmError", f)) = 1
            /\ YieldsAt("FallbackError", f) = {}
            /\ \A e \in YieldsAt("VllmError", f) :
                 /\ trace[e - 1] = StreamOver(f, FALSE)
                 /\ \A i \in (e + 1)..Len(trace) :
                      trace[i].file = f => trace[i].site = "Finished"
                 /\ e = Len(trace) => (pc = "complete" /\ idx = f)
                 /\ e < Len(trace) => trace[e + 1] = FinishedMsg(f)
            /\ (pc = "done" /\ f < numFiles) => Started(f + 1)

\* the stream of file 1 raised after a chunk, that of file 2 before its first
\* chunk; the run is over
C11_Witness ==
  /\ pc = "done" /\ numFiles > 1
  /\ StreamRaised(1) /\ YieldsAt("VllmChunk", 1) # {}
  /\ StreamRaised(2) /\ YieldsAt("VllmChunk", 2) = {}
  /\ YieldsAt("Finished", 2) # {}

\* ----------------------------------------------------------------- C12
\* C12: for each file Backend A is called at most once, the rasterizer at
\* most once and Backend B invoked at most once; Backend B is invoked for a
\* file only when no client was constructed or the file's Backend A call
\* raised, never after a Backend A call that returned, and after the Backend A
\* call and the rasterizer call of the file.
C12_NoRetries ==
  \A f \in Files :
    /\ Cardinality(CallsAt("extract_text_from_file", f)) <= 1
    /\ Cardinality(CallsAt("convert_files_to_images", f)) <= 1
    /\ Cardinality(CallsAt("process_images_to_markdown_stream", f)) <= 1
    /\ Cardinality({i \in Positions : trace[i].ev = "end" /\ trace[i].file = f}) <= 1
    /\ \A b \in CallsAt("process_images_to_markdown_stream", f) :
         /\ ~mistral_client \/ BackendARaised(f)
         /\ ~BackendASucceeded(f)
         /\ \A a \in CallsAt("extract_text_from_file", f) : a < b
         /\ \E r \in CallsAt("convert_files_to_images", f) : r < b
    /\ \A r \in CallsAt("convert_files_to_images", f) :
         /\ ~BackendASucceeded(f)
         /\ \A a \in CallsAt("extract_text_from_file", f) : a < r

\* Backend A raised for file 1, which went on to Backend B; Backend A
\* returned for file 2, which did not
C12_Witness ==
  /\ pc = "done" /\ numFiles > 1
  /\ BackendARaised(1) /\ StreamInvoked(1)
  /\ BackendASucceeded(2) /\ ~StreamInvoked(2)
  /\ CallsAt("convert_files_to_images", 2) = {}

\* ----------------------------------------------------------------- C13
\* C13: for every text x, process_tags(x) contains none of the eight raw
\* tokens, and process_tags(process_tags(x)) = process_tags(x).
C13_SanitizerIdempotentAndTokenFree ==
  \A i \in Positions : trace[i].site = "process_tags" =>
    /\ \A t \in RawTokens : ~Contains(trace[i].text, t)
    /\ i > 1 => trace[i].text = trace[i - 1].text

\* process_tags was applied twice to "<<img>", a raw token behind a fragment
\* of one, and changed it
C13_Witness ==
  /\ pc = "done" /\ Len(trace) = 2
  /\ pages[1] = <<"<">> \o RawOpen(ImgName)
  /\ trace[1].site = "process_tags" /\ trace[1].text # pages[1]

\* ----------------------------------------------------------------- C14
\* the file-level failure a fragment reports: Backend A's (line 182), the
\* rasterizer's (lines 194 and 204) or Backend B's (line 132)
FailureKind(e) ==
  CASE e.site = "MistralError" -> "backend_a"
    [] e.site \in {"NoImages", "FallbackError"} -> "rasterization"
    [] e.site = "VllmError" -> "backend_b"
    [] OTHER -> "none"

\* C14: fragments that report different file-level failure kinds (Backend A
\* failure, rasterization failure, Backend B failure) never carry the same
\* status tag.
C14_FailureKindsHaveDistinctTags ==
  LET ys == Yielded IN
    \A i, j \in 1..Len(ys) :
      (/\ FailureKind(ys[i]) # "none" /\ FailureKind(ys[j]) # "none"
       /\ FailureKind(ys[i]) # FailureKind(ys[j]))
        => StatusTag(ys[i]) # StatusTag(ys[j])

\* ----------------------------------------------------------------- C15
\* the MIME type extract_text_from_file settles on for the file of the run
FileMime == ResolveMime(trace[1].guess, trace[1].ext)
\* the requests sent to the backend
RequestsSent == CallsAt("ocr.process", 1)

\* C15: once extract_text_from_file was called on a file: a request whose
\* file has the MIME type application/pdf has the type "document_url" and
\* carries the data URI (of that MIME type) under the field "document_url";
\* one whose MIME type starts with "image/" has the type "image_url" and
\* carries it under "image_url"; a file that exists, can be read and has one
\* of these MIME types gets exactly one request; for a missing file, and for a
\* MIME type that is undeterminable or neither PDF nor image, the call raised
\* and no request was sent.
C15_RequestFieldFollowsMimeType ==
  pc = "done" =>
    LET f == trace[1]
        mime == FileMime
        supported == mime = PdfMime \/ StartsWithImage(mime)
    IN /\ \A q \in RequestsSent :
            /\ f.exists /\ supported
            /\ trace[q].uri_mime = mime
            /\ mime = PdfMime =>
                 (trace[q].type = DocumentUrl /\ trace[q].field = DocumentUrl)
            /\ StartsWithImage(mime) =>
                 (trace[q].type = ImageUrl /\ trace[q].field = ImageUrl)
       /\ (f.exists /\ f.readOk /\ supported) => Cardinality(RequestsSent) = 1
       /\ (~f.exists \/ mime = NoMime \/ ~supported) =>
            /\ RequestsSent = {}
            /\ \E c \in CallsAt("extract_text_from_file", 1) : ~trace[c].ok

\* an image file whose MIME type was inferred from its extension was sent and
\* answered
C15_Witness ==
  /\ pc = "done"
  /\ trace[1].guess = NoMime /\ trace[1].ext = ".webp"
  /\ \E q \in RequestsSent : trace[q].ok /\ trace[q].type = ImageUrl

\* ----------------------------------------------------------------- C16
\* C16: when extract_text_from_file raised for the file, or the backend's
\* answer was a failure (also one after pages were produced), no Backend A
\* page fragment is yielded for the file; every Backend A page fragment comes
\* after the call returned, and the call returned the text of all pages of the
\* answer.
C16_BackendACallIsAtomic ==
  /\ (BackendARaised(1) \/ ~GivenAnswer.ok) => YieldsAt("MistralPage", 1) = {}
  /\ (pc # "mistral_call" /\ (~GivenAnswer.ok \/ ~GivenFile.exists))
       => BackendARaised(1)
  /\ \A y \in YieldsAt("MistralPage", 1) :
       \E c \in CallsAt("extract_text_from_file", 1) :
         /\ c < y /\ trace[c].ok /\ GivenAnswer.ok
         /\ trace[c].text = Join(GivenAnswer.pages, ClientSeparator)

\* the backend failed after two pages were produced; the file went through the
\* fallback and the run is over
C16_Witness ==
  /\ pc = "done"
  /\ ~GivenAnswer.ok /\ Len(GivenAnswer.pages) = 2 /\ GivenFile.exists
  /\ BackendARaised(1) /\ YieldsAt("VllmChunk", 1) # {}

\* ----------------------------------------------------------------- C17
\* the elements of a sequence
Range(seq) == {seq[i] : i \in 1..Len(seq)}
\* a text without any of the eight raw tokens
TokenFree(x) == \A t \in RawTokens : ~Contains(x, t)

\* C17: the page text of every Backend A page fragment and of every forwarded
\* Backend B chunk is process_tags of the text the backend produced (a piece
\* of the text extract_text_from_file returned, a chunk of the stream), and
\* contains none of the eight raw tokens.
C17_ContentFragmentsAreSanitized ==
  \A f \in Files :
    /\ YieldsAt("VllmChunk", f) # {} =>
         \A chunks \in {{process_tags(chunk) : chunk \in ChunkSet}} :
           /\ \A x \in chunks : TokenFree(x)
           /\ \A i \in YieldsAt("VllmChunk", f) : trace[i].text \in chunks
    /\ YieldsAt("MistralPage", f) # {} =>
         \E c \in CallsAt("extract_text_from_file", f) :
           \A ps \in {{process_tags(p) : p \in Range(Split(trace[c].text, PageSeparator))}} :
             /\ \A x \in ps : TokenFree(x)
             /\ \A i \in YieldsAt("MistralPage", f) : trace[i].text \in ps

\* Backend A's page "<img>b</img>" was yielded escaped for file 1, and a chunk
\* of Backend B, which held "<img>", was forwarded for file 2
C17_Witness ==
  /\ pc = "done" /\ numFiles > 1
  /\ \E i \in YieldsAt("MistralPage", 1) :
       trace[i].text = EscOpen(ImgName) \o <<"b">> \o EscClose(ImgName)
  /\ \E i \in YieldsAt("VllmChunk", 2) : Contains(trace[i].text, EscOpen(ImgName))

\* ----------------------------------------------------------------- C18
\* the chunk of the driver's runs behind a forwarded fragment
RawChunkOf(e) == CHOOSE chunk \in DriverChunkSet : process_tags(chunk) = e.text

\* the page number the header of the j-th chunk shows, from the chunks before
\* it: 1 when none of them held a delimiter, else the delimiter count of the
\* latest that did, plus one, and at most n
RECURSIVE HeaderPage(_, _, _)
HeaderPage(cs, j, n) ==
  IF j = 1 THEN 1
  ELSE IF Contains(RawChunkOf(cs[j - 1]), Delimiter)
       THEN Min(Count(RawChunkOf(cs[j - 1]), Delimiter) + 1, n)
       ELSE HeaderPage(cs, j - 1, n)

\* C18: in a stream over n > 1 page images every chunk's header shows a page
\* number k with 1 <= k <= n and the total n; the first chunk shows k = 1;
\* each later chunk shows the delimiter count, plus one and clamped to n, of
\* the most recent earlier chunk that held a delimiter (1 when there is none).
C18_HeaderFollowsLastDelimiterCount ==
  num_pages > 1 =>
    LET cs == ChunksYielded IN
      \A j \in 1..Len(cs) :
        /\ cs[j].n = num_pages
        /\ 1 <= cs[j].k /\ cs[j].k <= num_pages
        /\ j = 1 => cs[j].k = 1
        /\ cs[j].k = HeaderPage(cs, j, num_pages)

\* over two pages: a chunk with two delimiters, then a chunk without one whose
\* header is clamped to 2, then a third chunk that still shows 2
C18_Witness ==
  /\ num_pages = 2 /\ Len(ChunksYielded) = 3
  /\ Count(RawChunkOf(ChunksYielded[1]), Delimiter) = 2
  /\ ~Contains(RawChunkOf(ChunksYielded[2]), Delimiter)
  /\ ChunksYielded[2].k = 2 /\ ChunksYielded[3].k = 2

\* ----------------------------------------------------------------- C19
\* C19: when the backend answered with the pages p1..pn and the file's
\* iteration is over, the Backend A content fragments of the file are n, the
\* k-th carries the sanitized text of pk, and their headers show "of n"
\* (no header when n <= 1).
C19_SplitRecoversResponsePages ==
  (BackendASucceeded(1) /\ IterationEnded(1)) =>
    LET ps == GivenAnswer.pages
        ys == SelectSeq(YieldedFor(1), LAMBDA e : e.site = "MistralPage")
        n == Len(ps)
    IN /\ Len(ys) = n
       /\ \A k \in 1..n :
            /\ ys[k].text = process_tags(ps[k])
            /\ n > 1 => (ys[k].k = k /\ ys[k].n = n)
            /\ n <= 1 => (ys[k].k = 0 /\ ys[k].n = 0)

====
